---- MODULE Spec2Model ----
(***************************************************************************)
(* ReadRemoteMemory (NativeCore/Windows/ReadRemoteMemory.cpp): the remote  *)
(* read dispatch between ReadProcessMemory and the BypaPH object's RWVM.   *)
(*                                                                         *)
(* Caller threads run the function one statement at a time; the two        *)
(* transports are external and are modelled by their contract: they report *)
(* a return value and a transferred count, and write the transferred bytes *)
(* of the target process at the local address they were given.             *)
(***************************************************************************)
EXTENDS Integers, Sequences, FiniteSets

(* ------------------------------ bounds -------------------------------- *)
\* Width in bits of the machine word (uintptr_t, SIZE_T), scaled down.
W == 2
\* Largest byte count a caller asks for.
MaxSize == 2
\* Largest magnitude of the offset a caller passes.
MaxOffset == 1

(* --------------------------- program constants ------------------------ *)
STATUS_SUCCESS == 0
NULL == 0

(* ------------------------------ domains ------------------------------- *)
Threads == {1, 2}
Objects == {1, 2}
Handles == {1, 2}
Addresses == {0, 1}
WordMod == 2 ^ W
Addr == 0 .. (WordMod - 1)
\* Memory the caller hands in: every byte holds a marker no source byte equals.
FreshMem == [a \in Addr |-> 2]

VARIABLES
    UseKernal,          \* process-wide mode flag
    ByPass,             \* process-wide BypaPH pointer, NULL or an object
    mem,                \* the caller's address space, byte per address
    pc,                 \* per thread: the statement it is at
    args,               \* per thread: the arguments as passed
    buffer,             \* per thread: parameter buffer after line 8
    numberOfBytesRead,  \* the storage of the local of line 10, per slot
    read,               \* per thread: the transport's return value
    checked,            \* per thread: the ByPass value line 16 tested
    loaded,             \* per thread: which operands of line 18 are loaded
    thisObj,            \* per thread: object RWVM is called on
    hTarget,            \* per thread: first argument loaded for RWVM
    calls,              \* per thread: transport invocations of this call
    held,               \* per thread: values ByPass held since line 16 ran
    result              \* per thread: the returned boolean (at "done")

vars == <<UseKernal, ByPass, mem, pc, args, buffer, numberOfBytesRead, read,
          checked, loaded, thisObj, hTarget, calls, held, result>>

(* ------------------------- pure parts of the code --------------------- *)
\* Variant: the int is zero-extended from a narrower unsigned type.
ToWordZeroExtend(i) == IF i < 0 THEN i % (2 ^ (W - 1)) ELSE i

\* Conversion of an int to the unsigned machine word (sign extension, then
\* reduction modulo 2^W).
ToWord(i) == i % WordMod

\* Variant: the offset is dropped.
AdjustBufferNoOffset(buf, offset) == buf

\* Variant: the offset is subtracted.
AdjustBufferSubtract(buf, offset) == (buf - offset) % WordMod

\* Line 8: reinterpret_cast<uintptr_t>(buffer) + offset, unsigned arithmetic.
AdjustBuffer(buf, offset) == (buf + ToWord(offset)) % WordMod

\* Variant: the transferred count is not compared.
DirectSuccessAnyCount(ret, size, n) == ret # 0

\* Line 13: BOOL && size == numberOfBytesRead (int against SIZE_T).
DirectSuccess(ret, size, n) == ret # 0 /\ ToWord(size) = n

\* Variant: every non-negative status counts as success.
BypassSuccessNonNegative(ret, size, n) == ret >= 0 /\ ToWord(size) = n

\* Line 19: read == STATUS_SUCCESS && size == numberOfBytesRead.
BypassSuccess(ret, size, n) == ret = STATUS_SUCCESS /\ ToWord(size) = n

\* Variant: the mode flag is ignored.
DispatchAlwaysDirect(useKernal) == "L13"

\* Lines 11 and 16: the branch the mode flag selects.
Dispatch(useKernal) == IF useKernal THEN "L16" ELSE "L13"

\* Variant: the pointer is not tested.
ByPassUnchecked(bp) == TRUE

\* Line 16: ByPass != nullptr.
ByPassPresent(bp) == bp # NULL

\* The m_hTarget field of a BypaPH object (its own target identifier).
m_hTarget(obj) == 3 - obj

\* Variant: the caller's handle is passed.
TargetArgHandle(obj, handle) == handle

\* Line 18: the first argument of RWVM.
TargetArg(obj, handle) == m_hTarget(obj)

\* Variant: numberOfBytesRead has static storage, one for all calls.
NbrSlotStatic(t) == 1

\* Line 10: numberOfBytesRead has automatic storage, one per call.
NbrSlot(t) == t

(* ------------------------------ transports ---------------------------- *)
\* Byte i of the target's region starting at address.
SrcByte(address, i) == (address + i) % 2

\* Counts a transport may report for a request of sz bytes.
Transferred(sz) == {n \in 0 .. sz : n <= 1 \/ n >= sz - 1}

\* The transport's copy of n bytes to the local address dst.
Write(m, dst, n, address) ==
    [a \in Addr |->
        IF (a - dst) % WordMod < n THEN SrcByte(address, (a - dst) % WordMod)
        ELSE m[a]]

Invocation(kind, obj, id, address, local, size, ret, n) ==
    [transport |-> kind, this |-> obj, id |-> id, address |-> address,
     local |-> local, size |-> size, ret |-> ret, n |-> n]

(* -------------------------------- state ------------------------------- *)
NoArgs == [handle |-> 0, address |-> 0, buffer |-> 0, offset |-> 0, size |-> 0]

Init ==
    /\ UseKernal \in BOOLEAN
    /\ ByPass \in {NULL} \cup Objects
    /\ mem = FreshMem
    /\ pc = [t \in Threads |-> "idle"]
    /\ args = [t \in Threads |-> NoArgs]
    /\ buffer = [t \in Threads |-> 0]
    /\ numberOfBytesRead = [t \in Threads |-> 0]
    /\ read = [t \in Threads |-> 0]
    /\ checked = [t \in Threads |-> NULL]
    /\ loaded = [t \in Threads |-> {}]
    /\ thisObj = [t \in Threads |-> NULL]
    /\ hTarget = [t \in Threads |-> 0]
    /\ calls = [t \in Threads |-> <<>>]
    /\ held = [t \in Threads |-> {}]
    /\ result = [t \in Threads |-> FALSE]

AllIdle == \A t \in Threads : pc[t] = "idle"
OthersIdle(t) == \A u \in Threads \ {t} : pc[u] = "idle"

\* Inputs of a call made while no other call runs.
SeqInputs ==
    [handles |-> Handles, addresses |-> Addresses,
     buffers |-> {0, 1, WordMod - 1},
     offsets |-> (0 - MaxOffset) .. MaxOffset,
     sizes |-> (0 - 1) .. MaxSize,
     mems |-> {FreshMem}]

\* Inputs of calls that run concurrently: the callers leave memory as it is.
ConcInputs ==
    [handles |-> Handles, addresses |-> {0},
     buffers |-> {0},
     offsets |-> {0},
     sizes |-> 1 .. MaxSize,
     mems |-> {mem}]

\* Inputs of calls that run while the globals are being changed.
ReconfInputs ==
    [handles |-> {1}, addresses |-> {0},
     buffers |-> {0},
     offsets |-> {0},
     sizes |-> {1},
     mems |-> {mem}]

(* ------------------------------- actions ------------------------------ *)
\* Lines 6-10: entry, buffer adjusted by offset, numberOfBytesRead = 0.
\* The arguments and the content of the caller's memory at entry are the
\* inputs of the call.
Call(t, in) ==
    /\ pc[t] = "idle"
    /\ \E h \in in.handles, ad \in in.addresses, b \in in.buffers,
          o \in in.offsets, s \in in.sizes :
          /\ args' = [args EXCEPT ![t] =
                 [handle |-> h, address |-> ad, buffer |-> b,
                  offset |-> o, size |-> s]]
          /\ buffer' = [buffer EXCEPT ![t] = AdjustBuffer(b, o)]
    /\ mem' \in in.mems
    /\ numberOfBytesRead' = [numberOfBytesRead EXCEPT ![NbrSlot(t)] = 0]
    /\ pc' = [pc EXCEPT ![t] = "L11"]
    /\ UNCHANGED <<UseKernal, ByPass, read, checked, loaded, thisObj,
                   hTarget, calls, result, held>>

\* Line 11: if (!UseKernal) ... else ...; the flag is read once.
ReadFlag(t) ==
    /\ pc[t] = "L11"
    /\ pc' = [pc EXCEPT ![t] = Dispatch(UseKernal)]
    /\ UNCHANGED <<UseKernal, ByPass, mem, args, buffer, numberOfBytesRead,
                   read, checked, loaded, thisObj, hTarget, calls, result, held>>

\* Line 13, the call: ReadProcessMemory(handle, address, buffer, size, &n).
ReadProcessMemory(t) ==
    /\ pc[t] = "L13"
    /\ \E ok \in {0, 1}, n \in Transferred(ToWord(args[t].size)) :
          /\ mem' = Write(mem, buffer[t], n, args[t].address)
          /\ numberOfBytesRead' =
                 [numberOfBytesRead EXCEPT ![NbrSlot(t)] = n]
          /\ read' = [read EXCEPT ![t] = ok]
          /\ calls' = [calls EXCEPT ![t] = Append(@,
                 Invocation("ReadProcessMemory", NULL, args[t].handle,
                            args[t].address, buffer[t],
                            ToWord(args[t].size), ok, n))]
    /\ pc' = [pc EXCEPT ![t] = "L13cmp"]
    /\ UNCHANGED <<UseKernal, ByPass, args, buffer, checked, loaded,
                   thisObj, hTarget, result, held>>

\* Line 13, the test, then return true (14) or return false (23).
DirectCheck(t) ==
    /\ pc[t] = "L13cmp"
    /\ result' = [result EXCEPT ![t] =
           DirectSuccess(read[t], args[t].size,
                         numberOfBytesRead[NbrSlot(t)])]
    /\ pc' = [pc EXCEPT ![t] = "done"]
    /\ UNCHANGED <<UseKernal, ByPass, mem, args, buffer, numberOfBytesRead,
                   read, checked, loaded, thisObj, hTarget, calls, held>>

\* Line 16: else if (ByPass != nullptr); otherwise return false (23).
NullCheck(t) ==
    /\ pc[t] = "L16"
    /\ checked' = [checked EXCEPT ![t] = ByPass]
    /\ held' = [held EXCEPT ![t] = {ByPass}]
    /\ IF ByPassPresent(ByPass)
       THEN /\ pc' = [pc EXCEPT ![t] = "L18"]
            /\ UNCHANGED result
       ELSE /\ pc' = [pc EXCEPT ![t] = "done"]
            /\ result' = [result EXCEPT ![t] = FALSE]
    /\ UNCHANGED <<UseKernal, ByPass, mem, args, buffer, numberOfBytesRead,
                   read, loaded, thisObj, hTarget, calls>>

\* Line 18, operand ByPass of ByPass->RWVM: the pointer is loaded again, or
\* the build reuses the value line 16 loaded.
LoadThis(t) ==
    /\ pc[t] = "L18"
    /\ "this" \notin loaded[t]
    /\ \E bp \in {ByPass, checked[t]} :
          thisObj' = [thisObj EXCEPT ![t] = bp]
    /\ loaded' = [loaded EXCEPT ![t] = @ \cup {"this"}]
    /\ UNCHANGED <<UseKernal, ByPass, mem, pc, args, buffer,
                   numberOfBytesRead, read, checked, hTarget, calls, result, held>>

\* Line 18, operand ByPass->m_hTarget: a load through the pointer; through
\* a null pointer it is an access violation.
LoadTarget(t) ==
    /\ pc[t] = "L18"
    /\ "target" \notin loaded[t]
    /\ \E bp \in {ByPass, checked[t]} :
          IF bp = NULL
          THEN /\ pc' = [pc EXCEPT ![t] = "fault"]
               /\ UNCHANGED <<hTarget, loaded>>
          ELSE /\ hTarget' = [hTarget EXCEPT ![t] =
                       TargetArg(bp, args[t].handle)]
               /\ loaded' = [loaded EXCEPT ![t] = @ \cup {"target"}]
               /\ UNCHANGED pc
    /\ UNCHANGED <<UseKernal, ByPass, mem, args, buffer, numberOfBytesRead,
                   read, checked, thisObj, calls, result, held>>

\* Line 18, the call: RWVM(m_hTarget, address, buffer, size, &n) on the
\* loaded object; on a null object the call faults.
RWVM(t) ==
    /\ pc[t] = "L18"
    /\ loaded[t] = {"this", "target"}
    /\ IF thisObj[t] = NULL
       THEN /\ calls' = [calls EXCEPT ![t] = Append(@,
                   Invocation("RWVM", NULL, hTarget[t], args[t].address,
                              buffer[t], ToWord(args[t].size), 0, 0))]
            /\ pc' = [pc EXCEPT ![t] = "fault"]
            /\ UNCHANGED <<mem, numberOfBytesRead, read>>
       ELSE /\ \E st \in {0 - 1, 0, 1},
                  n \in Transferred(ToWord(args[t].size)) :
                  /\ mem' = Write(mem, buffer[t], n, args[t].address)
                  /\ numberOfBytesRead' =
                         [numberOfBytesRead EXCEPT ![NbrSlot(t)] = n]
                  /\ read' = [read EXCEPT ![t] = st]
                  /\ calls' = [calls EXCEPT ![t] = Append(@,
                         Invocation("RWVM", thisObj[t], hTarget[t],
                                    args[t].address, buffer[t],
                                    ToWord(args[t].size), st, n))]
            /\ pc' = [pc EXCEPT ![t] = "L19"]
    /\ UNCHANGED <<UseKernal, ByPass, args, buffer, checked, loaded,
                   thisObj, hTarget, result, held>>

\* Line 19, the test, then return true (20) or return false (23).
BypassCheck(t) ==
    /\ pc[t] = "L19"
    /\ result' = [result EXCEPT ![t] =
           BypassSuccess(read[t], args[t].size,
                         numberOfBytesRead[NbrSlot(t)])]
    /\ pc' = [pc EXCEPT ![t] = "done"]
    /\ UNCHANGED <<UseKernal, ByPass, mem, args, buffer, numberOfBytesRead,
                   read, checked, loaded, thisObj, hTarget, calls, held>>

\* The caller takes the result; the frame of the call (parameters, locals,
\* the storage of numberOfBytesRead) is gone.
Finish(t) ==
    /\ pc[t] = "done"
    /\ pc' = [pc EXCEPT ![t] = "idle"]
    /\ args' = [args EXCEPT ![t] = NoArgs]
    /\ buffer' = [buffer EXCEPT ![t] = 0]
    /\ read' = [read EXCEPT ![t] = 0]
    /\ checked' = [checked EXCEPT ![t] = NULL]
    /\ loaded' = [loaded EXCEPT ![t] = {}]
    /\ thisObj' = [thisObj EXCEPT ![t] = NULL]
    /\ hTarget' = [hTarget EXCEPT ![t] = 0]
    /\ calls' = [calls EXCEPT ![t] = <<>>]
    /\ held' = [held EXCEPT ![t] = {}]
    /\ result' = [result EXCEPT ![t] = FALSE]
    /\ numberOfBytesRead' = [numberOfBytesRead EXCEPT ![NbrSlot(t)] = 0]
    /\ UNCHANGED <<UseKernal, ByPass, mem>>

\* The subsystem that owns the mode flag and the bypass pointer sets them.
Configure ==
    /\ \A t \in Threads : pc[t] # "fault"
    /\ UseKernal' \in BOOLEAN
    /\ ByPass' \in {NULL} \cup Objects
    /\ <<UseKernal', ByPass'>> # <<UseKernal, ByPass>>
    /\ held' = [t \in Threads |->
           IF pc[t] = "L18" THEN held[t] \cup {ByPass'} ELSE held[t]]
    /\ UNCHANGED <<mem, pc, args, buffer, numberOfBytesRead, read, checked,
                   loaded, thisObj, hTarget, calls, result>>

\* A statement of a running call.
Step(t) ==
    \/ ReadFlag(t)
    \/ ReadProcessMemory(t)
    \/ DirectCheck(t)
    \/ NullCheck(t)
    \/ LoadThis(t)
    \/ LoadTarget(t)
    \/ RWVM(t)
    \/ BypassCheck(t)
    \/ Finish(t)

NoFault == \A t \in Threads : pc[t] # "fault"

\* One call at a time; the globals change only between calls.
Next ==
    \/ \E t \in Threads : OthersIdle(t) /\ Call(t, SeqInputs)
    \/ \E t \in Threads : Step(t)
    \/ AllIdle /\ Configure

Spec == Init /\ [][Next]_vars

\* Concurrent calls; the globals change only while no call runs.
NextConc ==
    \/ \E t \in Threads : Call(t, ConcInputs)
    \/ \E t \in Threads : Step(t)
    \/ AllIdle /\ Configure

SpecConc == Init /\ [][NextConc]_vars

\* Concurrent calls while another thread changes the globals at any time.
\* An access violation ends the process.
NextReconf ==
    \/ \E t \in Threads : NoFault /\ Call(t, ReconfInputs)
    \/ \E t \in Threads : NoFault /\ Step(t)
    \/ Configure

SpecReconf == Init /\ [][NextReconf]_vars

(* ============================== properties ============================ *)
Active(t) == pc[t] # "idle"
Done(t) == pc[t] = "done"

\* buffer + offset as an integer, and reduced to the machine word.
Sum(t) == args[t].buffer + args[t].offset
Dest(t) ==
    IF Sum(t) < 0 THEN Sum(t) + WordMod
    ELSE IF Sum(t) >= WordMod THEN Sum(t) - WordMod
    ELSE Sum(t)

\* The destination window [buffer+offset, buffer+offset+size).
DestWindow(t) == {(Dest(t) + i) % WordMod : i \in 0 .. (args[t].size - 1)}

\* size as an unsigned machine word.
Unsigned(i) == IF i < 0 THEN i + WordMod ELSE i

Invoked(t, kind) ==
    \E i \in 1 .. Len(calls[t]) : calls[t][i].transport = kind

\* C1: in Direct mode, for size >= 0, the call returns true exactly when
\* ReadProcessMemory reported success and transferred = size; when it
\* returns true the destination window holds the source bytes supplied.
C1_DirectResult ==
    \A t \in Threads :
        (Done(t) /\ ~UseKernal /\ args[t].size >= 0) =>
            /\ Len(calls[t]) = 1
            /\ calls[t][1].transport = "ReadProcessMemory"
            /\ result[t] <=>
                   (calls[t][1].ret # 0 /\ calls[t][1].n = args[t].size)
            /\ result[t] =>
                   \A i \in 0 .. (args[t].size - 1) :
                       mem[(Dest(t) + i) % WordMod] =
                           SrcByte(args[t].address, i)

C1_Witness ==
    \E t \in Threads :
        /\ Done(t) /\ ~UseKernal /\ result[t]
        /\ args[t].size = MaxSize /\ args[t].offset # 0
        /\ calls[t][1].n = MaxSize

\* C2: in Bypass mode with a non-null ByPass, for size >= 0, the call
\* returns true exactly when the status is zero and transferred = size;
\* a non-zero status of either sign returns false.
C2_BypassResult ==
    \A t \in Threads :
        (Done(t) /\ UseKernal /\ ByPass # NULL /\ args[t].size >= 0) =>
            /\ Len(calls[t]) = 1
            /\ calls[t][1].transport = "RWVM"
            /\ result[t] <=>
                   (calls[t][1].ret = 0 /\ calls[t][1].n = args[t].size)

C2_Witness ==
    \E t \in Threads :
        /\ Done(t) /\ UseKernal /\ ByPass # NULL /\ ~result[t]
        /\ Len(calls[t]) = 1
        /\ calls[t][1].ret > 0
        /\ calls[t][1].n = args[t].size

\* C3: in Bypass mode with ByPass null the call returns false and invokes
\* neither transport.
C3_NullByPass ==
    \A t \in Threads :
        (Active(t) /\ UseKernal /\ ByPass = NULL) =>
            /\ calls[t] = <<>>
            /\ pc[t] \in {"L11", "L16", "done"}
            /\ Done(t) => ~result[t]

C3_Witness ==
    \E t \in Threads :
        /\ Done(t) /\ UseKernal /\ ByPass = NULL
        /\ args[t].size = MaxSize
        /\ ~result[t] /\ calls[t] = <<>>

\* C4: a call invokes at most one transport, at most once: the Direct one
\* when UseKernal is false, the Bypass one when it is true; a failed attempt
\* is not followed by a read through the other transport.
C4_ModeExclusive ==
    \A t \in Threads :
        /\ Len(calls[t]) <= 1
        /\ \A i \in 1 .. Len(calls[t]) :
               calls[t][i].transport =
                   IF UseKernal THEN "RWVM" ELSE "ReadProcessMemory"
        /\ (Done(t) /\ ~result[t]) =>
               ~(Invoked(t, "RWVM") /\ Invoked(t, "ReadProcessMemory"))

C4_Witness ==
    \E t \in Threads :
        /\ Done(t) /\ ~result[t]
        /\ Len(calls[t]) = 1
        /\ calls[t][1].transport = "RWVM"
        /\ calls[t][1].ret # 0

\* C5: the transport invoked receives buffer + offset as its local
\* destination whenever the sum is representable, and the caller's address
\* and size unchanged.
C5_OffsetApplied ==
    \A t \in Threads :
        \A i \in 1 .. Len(calls[t]) :
            /\ calls[t][i].address = args[t].address
            /\ args[t].size >= 0 => calls[t][i].size = args[t].size
            /\ (Sum(t) >= 0 /\ Sum(t) < WordMod) =>
                   calls[t][i].local = Sum(t)

C5_Witness ==
    \E t \in Threads :
        /\ Len(calls[t]) = 1
        /\ calls[t][1].transport = "RWVM"
        /\ args[t].offset < 0 /\ args[t].size > 0 /\ args[t].address # 0
        /\ calls[t][1].local = args[t].buffer - 1

\* C6: a step of a running call leaves UseKernal and ByPass unchanged and,
\* for size >= 0, every byte outside the destination window unchanged; in
\* Bypass mode with ByPass null it leaves the whole memory unchanged.
C6_Frame ==
    [][\A t \in Threads :
          Active(t) =>
              /\ UseKernal' = UseKernal
              /\ ByPass' = ByPass
              /\ args[t].size >= 0 =>
                     \A a \in Addr \ DestWindow(t) : mem'[a] = mem[a]
              /\ (UseKernal /\ ByPass = NULL) => mem' = mem]_vars

C6_Witness ==
    \E t \in Threads :
        /\ Done(t) /\ ~result[t]
        /\ args[t].size = MaxSize /\ args[t].offset > 0
        /\ mem[Dest(t)] # FreshMem[Dest(t)]
        /\ \A a \in Addr \ DestWindow(t) : mem[a] = FreshMem[a]

\* C7: under every interleaving of concurrent calls, with the globals not
\* changed during the calls, each call returns the result of its own
\* transport outcome and its own size.
C7_OwnOutcome ==
    \A t \in Threads :
        Done(t) =>
            (result[t] <=>
                /\ Len(calls[t]) = 1
                /\ calls[t][1].n = args[t].size
                /\ IF calls[t][1].transport = "RWVM"
                   THEN calls[t][1].ret = 0
                   ELSE calls[t][1].ret # 0)

C7_Witness ==
    \E t \in Threads, u \in Threads :
        /\ t # u
        /\ Done(t) /\ result[t]
        /\ Done(u) /\ ~result[u]
        /\ args[t].size # args[u].size
        /\ Len(calls[u]) = 1
        /\ calls[u][1].n = args[t].size
        /\ calls[t][1].n = args[u].size - 1

\* C8: RWVM is invoked with the bypass object's own m_hTarget, whatever the
\* caller's handle; two calls that differ only in the handle pass the same
\* arguments to RWVM and, for equal outcomes, return the same boolean.
C8_TargetIndependent ==
    /\ \A t \in Threads :
           \A i \in 1 .. Len(calls[t]) :
               calls[t][i].transport = "RWVM" =>
                   /\ calls[t][i].this = ByPass
                   /\ calls[t][i].id = m_hTarget(ByPass)
    /\ \A t \in Threads, u \in Threads :
           ( /\ Invoked(t, "RWVM") /\ Invoked(u, "RWVM")
             /\ [args[t] EXCEPT !.handle = 0] = [args[u] EXCEPT !.handle = 0] )
           =>
             /\ [calls[t][1] EXCEPT !.ret = 0, !.n = 0] =
                    [calls[u][1] EXCEPT !.ret = 0, !.n = 0]
             /\ ( /\ Done(t) /\ Done(u)
                  /\ calls[t][1].ret = calls[u][1].ret
                  /\ calls[t][1].n = calls[u][1].n )
                => result[t] = result[u]

C8_Witness ==
    \E t \in Threads, u \in Threads :
        /\ Done(t) /\ Done(u)
        /\ Invoked(t, "RWVM") /\ Invoked(u, "RWVM")
        /\ args[t].handle # args[u].handle
        /\ [args[t] EXCEPT !.handle = 0] = [args[u] EXCEPT !.handle = 0]
        /\ calls[t][1] = calls[u][1]
        /\ result[t] /\ result[u]

\* C9: the destination is (buffer + offset) modulo 2^W with the offset sign
\* extended, wrapping at both ends; the success test compares size as an
\* unsigned machine word with the transferred count.
C9_Numeric ==
    \A t \in Threads :
        /\ Active(t) => buffer[t] = Dest(t)
        /\ (Done(t) /\ Len(calls[t]) = 1) =>
               /\ calls[t][1].local = Dest(t)
               /\ calls[t][1].size = Unsigned(args[t].size)
               /\ result[t] <=>
                      /\ calls[t][1].n = Unsigned(args[t].size)
                      /\ IF calls[t][1].transport = "RWVM"
                         THEN calls[t][1].ret = 0
                         ELSE calls[t][1].ret # 0

C9_Witness ==
    \E t \in Threads :
        /\ Done(t) /\ result[t]
        /\ args[t].size < 0
        /\ Sum(t) < 0
        /\ buffer[t] = WordMod - 1
        /\ calls[t][1].n = WordMod - 1

\* C10, as stated: while the globals are changed during a call, the call
\* invokes at most one transport, never goes through a null ByPass, and
\* takes RWVM and m_hTarget from the object that passed the null check.
C10_Original ==
    \A t \in Threads :
        /\ Len(calls[t]) <= 1
        /\ pc[t] # "fault"
        /\ \A i \in 1 .. Len(calls[t]) :
               calls[t][i].transport = "RWVM" =>
                   /\ calls[t][i].this # NULL
                   /\ calls[t][i].this = checked[t]
                   /\ calls[t][i].id = m_hTarget(checked[t])

\* C10, amended: while the globals are changed during a call, the call
\* invokes at most one transport; as long as ByPass has not been changed
\* since the null check of line 16, the call does not go through a null
\* pointer and takes RWVM and m_hTarget from the object line 16 tested.
C10_Amended ==
    \A t \in Threads :
        /\ Len(calls[t]) <= 1
        /\ (pc[t] \in {"L18", "L19", "fault", "done"}
                /\ held[t] = {checked[t]}) =>
               /\ pc[t] # "fault"
               /\ checked[t] # NULL \/ (Done(t) /\ calls[t] = <<>>)
               /\ "this" \in loaded[t] => thisObj[t] = checked[t]
               /\ "target" \in loaded[t] =>
                      hTarget[t] = m_hTarget(checked[t])
               /\ \A i \in 1 .. Len(calls[t]) :
                      /\ calls[t][i].transport = "RWVM"
                      /\ calls[t][i].this = checked[t]
                      /\ calls[t][i].id = m_hTarget(checked[t])

C10_Witness ==
    \E t \in Threads :
        /\ pc[t] = "L19"
        /\ Len(calls[t]) = 1
        /\ calls[t][1].transport = "RWVM"
        /\ calls[t][1].this = checked[t]
        /\ held[t] = {checked[t]}
        /\ ~UseKernal
        /\ ByPass # checked[t]

====
